---- MODULE Spec2Model ----
(***************************************************************************)
(* Polling engine, connectivity state and mutation coordinator of the      *)
(* Aegis Flow / CIC React front end:                                        *)
(*   src/frontend/src/hooks/useAegisData.js  (useAegisData, fetchData,     *)
(*                                            enroll, updateVitals, ...)   *)
(*   src/frontend/src/App.jsx                (App, handle* callbacks)      *)
(*   src/frontend/src/api/client.js          (gateway, no getFloorPlan)    *)
(*   src/unnamed/part_000                    (gateway with getFloorPlan)   *)
(*   src/frontend/src/components/Sidebar.jsx (handleEnroll guard)          *)
(*                                                                         *)
(* A step of the model is one JavaScript task: an event handler, a timer   *)
(* callback or the continuation of a settled promise runs to completion,   *)
(* and the state setters it calls are applied together (React batches the  *)
(* setters of one task into one render).                                   *)
(***************************************************************************)
EXTENDS Integers, FiniteSets, Sequences, Bags, TLC

\* ------------------------------------------------------------------ bounds
MaxFetches == 2     \* fetchData calls in one behaviour
MaxMuts == 2        \* mutation calls awaiting the gateway or their re-fetch at one time

\* --------------------------------------------------------------- constants
POLL_DEFAULT == 2000
NullInterval == 0 - 1          \* the null that App passes when autoRefresh is off

Empty == ""                    \* the empty identifier
TrackIds == {"T1"}
PatientIds == {"P1"}

Mandatory == {"patients", "tracked", "stats"}
Optional == {"floorPlan"}
Reads == Mandatory \cup Optional

NoError == "null"
TypeErrorMsg == "api.getFloorPlan is not a function"
\* What fetchAPI throws for a response that is not ok; a transport error rejects
\* with the browser's message and takes the same path.
ErrMsgs == {"API Error: 500"}

Undefined == "undefined"

\* ------------------------------------------------------------------- data
\* A value held by the hook is identified by where it comes from.
InitData(res) == [src |-> "init", res |-> res, fetch |-> 0, shape |-> "frontend"]
Gw(res, f) == [src |-> "gw", res |-> res, fetch |-> f, shape |-> "raw"]
NullData == [src |-> "null", res |-> "floorPlan", fetch |-> 0, shape |-> "none"]

\* The status_color that goes with a risk level in the records of mockPatients.
StatusColor(level) ==
  CASE level = "high" -> "#dc3545" [] level = "medium" -> "#ffc107" [] OTHER -> "#28a745"

\* A patient record: of its fields, the ones a derivation reads.
Patient(id, score, level) ==
  [patient_id |-> id, news2_score |-> score, risk_level |-> level,
   status_color |-> StatusColor(level)]

\* A value of the patients list: where it comes from and the records in it.
PatientList(d, list) == d @@ [list |-> list]

mockPatients ==
  PatientList([src |-> "mock", res |-> "patients", fetch |-> 0, shape |-> "frontend"],
              { Patient("P-1001", 9, "high"), Patient("P-1002", 6, "medium"),
                Patient("P-1003", 7, "high"), Patient("P-1004", 1, "low"),
                Patient("P-1005", 5, "medium"), Patient("P-1006", 8, "high") })

\* A value of the stats object: where it comes from and its six counts.
StatsObject(d, total, tagged, untagged, staff, critical, urgent) ==
  d @@ [total_tracked |-> total, tagged_patients |-> tagged, untagged |-> untagged,
        staff_count |-> staff, critical_located |-> critical, urgent_located |-> urgent]

mockStats ==
  StatsObject([src |-> "mock", res |-> "stats", fetch |-> 0, shape |-> "frontend"],
              5, 3, 2, 1, 2, 1)

\* A tracked person as the gateway sends it (GET /tracked) and as the front end
\* holds it.  NoPatient is the null patient_id of a person that is not enrolled.
NoPatient == "null"
RawEntity(t, p, pos, kind) ==
  [track_id |-> t, patient_id |-> p, map_position |-> pos, person_type |-> kind]
Entity(t, p, pos, kind) ==
  [track_id |-> t, patient_id |-> p, position |-> pos, person_type |-> kind]

\* A value of the tracked list: where it comes from and the persons in it.
TrackedList(d, list) == d @@ [list |-> list]

mockTrackedPeople ==
  TrackedList([src |-> "mock", res |-> "tracked", fetch |-> 0, shape |-> "frontend"],
              { Entity("T-A1B2", "P-1001", <<180, 280>>, "patient"),
                Entity("T-C3D4", "P-1002", <<420, 180>>, "patient"),
                Entity("T-E5F6", "P-1006", <<620, 320>>, "patient"),
                Entity("T-G7H8", NoPatient, <<300, 400>>, "staff"),
                Entity("T-I9J0", NoPatient, <<520, 250>>, "unknown") })

\* trackedData.map(t => ({track_id, patient_id, position: t.map_position, person_type}))
transformedTracked(trackedData) ==
  [trackedData EXCEPT !.shape = "frontend",
                      !.list = { Entity(t.track_id, t.patient_id, t.map_position, t.person_type)
                                 : t \in @ }]

\* The tracked persons the gateway can hold: none, T1 not enrolled, T1 enrolled
\* as each known patient.
MapPos == <<1, 1>>
Unlinked(t) == RawEntity(t, NoPatient, MapPos, "unknown")
Linked(t, p) == RawEntity(t, p, MapPos, "patient")
UpstreamLists ==
  {{}} \cup { {Unlinked(t)} : t \in TrackIds }
       \cup { {Linked(t, p)} : t \in TrackIds, p \in PatientIds }

\* Does the gateway, holding list, link a tracked person when it handles m.
UpstreamLinks(m, list) ==
  m.kind = "enroll" /\ m.p \in PatientIds /\ \E e \in list : e.track_id = m.t

\* What the gateway does to its tracked list when it handles a mutation:
\* POST /enroll links a tracked person to a patient, POST /demo/clear clears all
\* tracked, POST /demo/setup and /demo/add-person add persons under new track
\* ids, which are not among TrackIds.
UpstreamApply(m, list) ==
  CASE m.kind = "enroll" ->
         IF UpstreamLinks(m, list)
         THEN { IF e.track_id = m.t THEN Linked(m.t, m.p) ELSE e : e \in list }
         ELSE list
    [] m.kind = "clearAll" -> {}
    [] OTHER -> list

VARIABLES
  hasGetFloorPlan,  \* does the linked api/client export getFloorPlan
  legacyHook,       \* is the front end the older copy of the hook and of App
  upTracked,        \* the tracked persons the gateway holds
  view,             \* what the components derived in the last render that is followed
  api,              \* the last call of fetchAPI that is followed: its response and outcome
  panel,            \* Sidebar state: the selections of the enrolment panel
  patients, trackedPeople, stats, floorPlan,   \* useAegisData state
  loading, error, isConnected,                 \* useAegisData state
  autoRefresh, useMockData,                    \* App state
  mounted, intervals,                          \* polling effect: has run, intervals running
  fetches, nextFetch,                          \* fetchData calls awaiting Promise.all
  lastDone, lastOkId,                          \* last completed / last successful fetchData
  muts,                                        \* bag of mutation calls awaiting the gateway or the re-fetch
  lastMut,                                     \* the last mutation call that returned
  handlerRets                                  \* values the App handlers resolved with

hookVars == <<patients, trackedPeople, stats, floorPlan, loading, error, isConnected>>
appVars == <<autoRefresh, useMockData>>
fetchVars == <<fetches, nextFetch, lastDone, lastOkId>>
mutVars == <<muts, lastMut, handlerRets>>
vars == <<hasGetFloorPlan, legacyHook, api, panel, upTracked, view, hookVars, appVars, mounted, intervals, fetchVars, mutVars>>

\* Is an interval of the polling effect running.
timerOn == intervals > 0

NoView == [rendered |-> FALSE]
NoCall == [called |-> FALSE]
\* useState("") for selectedTrack and selectedPatient
NoSelection == [selectedTrack |-> Empty, selectedPatient |-> Empty]

NoMut == [gwOk |-> FALSE, result |-> "none", calls |-> 0, refetched |-> FALSE,
          threw |-> FALSE]

\* The front end after its first render, before the polling effect has run.
InitFrontEnd ==
  /\ view = NoView
  /\ api = NoCall
  /\ panel = NoSelection
  /\ patients = InitData("patients")
  /\ trackedPeople = TrackedList(InitData("tracked"), {})
  /\ stats = InitData("stats")
  /\ floorPlan = NullData
  /\ loading = TRUE
  /\ error = NoError
  /\ isConnected = FALSE
  /\ autoRefresh = TRUE
  /\ useMockData = FALSE
  /\ mounted = FALSE
  /\ intervals = 0
  /\ fetches = <<>>
  /\ nextFetch = 1
  /\ lastDone = [id |-> 0, ok |-> FALSE, err |-> NoError, failed |-> "none", okReads |-> {}]
  /\ lastOkId = 0
  /\ muts = EmptyBag
  /\ lastMut = NoMut
  /\ handlerRets = [o \in {"rejected", "completed"} |-> {}]

\* The cameras see none of the persons of TrackIds.
Init == hasGetFloorPlan \in BOOLEAN /\ legacyHook = FALSE /\ upTracked = {} /\ InitFrontEnd

\* The gateway holds any of its lists.
InitTracked ==
  hasGetFloorPlan \in BOOLEAN /\ legacyHook = FALSE /\ upTracked \in UpstreamLists /\ InitFrontEnd

\* The older copy of the hook and of App, linked with either client.
InitLegacy == hasGetFloorPlan \in BOOLEAN /\ legacyHook = TRUE /\ upTracked = {} /\ InitFrontEnd

\* ------------------------------------------------------------- connectivity
\* App.jsx header badge: loading ? "Connecting..." : isConnected ? "Live" : "Offline"
Connectivity == IF loading THEN "Connecting" ELSE IF isConnected THEN "Live" ELSE "Offline"

\* ShownPatients with the simulation flag left out of the condition.
ShownPatients_IgnoresFlag == IF ~isConnected THEN mockPatients ELSE patients

\* App.jsx: const patients = useMockData || !isConnected ? mockPatients : apiPatients
ShownPatients == IF useMockData \/ ~isConnected THEN mockPatients ELSE patients
ShownTracked == IF useMockData \/ ~isConnected THEN mockTrackedPeople ELSE trackedPeople
ShownStats == IF useMockData \/ ~isConnected THEN mockStats ELSE stats
\* App.jsx passes the hook's floorPlan to FloorMap as it is
ShownFloorPlan == floorPlan

\* App.jsx: <Sidebar isConnected={isConnected && !useMockData} />, and the same
\* for VideoFeed; Sidebar.jsx header badge: isConnected ? "Live" : "Mock"
SidebarIsConnected == isConnected /\ ~useMockData
VideoFeedIsConnected == isConnected /\ ~useMockData
SidebarBadge == IF SidebarIsConnected THEN "Live" ELSE "Mock"

\* ---------------------------------------------------------------- fetchData
\* The calls of fetchData whose Promise.all has not settled; fetches[f] is the
\* list the gateway answers GET /tracked of call f with.
InFlight == DOMAIN fetches

\* FetchSuccess with setError(null) left out.
FetchSuccess_KeepsError(f, layoutOk) ==
  /\ patients' = Gw("patients", f)
  /\ trackedPeople' = transformedTracked(TrackedList(Gw("tracked", f), fetches[f]))
  /\ stats' = Gw("stats", f)
  /\ floorPlan' = IF layoutOk THEN Gw("floorPlan", f) ELSE NullData
  /\ isConnected' = TRUE
  /\ loading' = FALSE
  /\ UNCHANGED error

\* FetchSuccess with setLoading(false) left out.
FetchSuccess_NoFinally(f, layoutOk) ==
  /\ patients' = Gw("patients", f)
  /\ trackedPeople' = transformedTracked(TrackedList(Gw("tracked", f), fetches[f]))
  /\ stats' = Gw("stats", f)
  /\ floorPlan' = IF layoutOk THEN Gw("floorPlan", f) ELSE NullData
  /\ error' = NoError
  /\ isConnected' = TRUE
  /\ UNCHANGED loading

\* FetchSuccess with setStats(statsData) left out.
FetchSuccess_StaleStats(f, layoutOk) ==
  /\ patients' = Gw("patients", f)
  /\ trackedPeople' = transformedTracked(TrackedList(Gw("tracked", f), fetches[f]))
  /\ floorPlan' = IF layoutOk THEN Gw("floorPlan", f) ELSE NullData
  /\ error' = NoError
  /\ isConnected' = TRUE
  /\ loading' = FALSE
  /\ UNCHANGED stats

\* try block after the await: the six setters of a successful fetch, and finally
FetchSuccess(f, layoutOk) ==
  /\ patients' = Gw("patients", f)
  /\ trackedPeople' = transformedTracked(TrackedList(Gw("tracked", f), fetches[f]))
  /\ stats' = Gw("stats", f)
  /\ floorPlan' = IF layoutOk THEN Gw("floorPlan", f) ELSE NullData
  /\ error' = NoError
  /\ isConnected' = TRUE
  /\ loading' = FALSE

\* FetchFailure with setFloorPlan(null) left out.
FetchFailure_KeepsLayout(msg) ==
  /\ error' = msg
  /\ isConnected' = FALSE
  /\ loading' = FALSE
  /\ UNCHANGED <<floorPlan, patients, trackedPeople, stats>>

\* FetchFailure with the stored lists and stats reset to their initial values.
FetchFailure_DropsSnapshot(msg) ==
  /\ error' = msg
  /\ isConnected' = FALSE
  /\ floorPlan' = NullData
  /\ loading' = FALSE
  /\ patients' = InitData("patients")
  /\ trackedPeople' = TrackedList(InitData("tracked"), {})
  /\ stats' = InitData("stats")

\* FetchFailure with setError(err.message) left out.
FetchFailure_KeepsError(msg) ==
  /\ isConnected' = FALSE
  /\ floorPlan' = NullData
  /\ loading' = FALSE
  /\ UNCHANGED <<error, patients, trackedPeople, stats>>

\* catch block, and finally
FetchFailure(msg) ==
  /\ error' = msg
  /\ isConnected' = FALSE
  /\ floorPlan' = NullData
  /\ loading' = FALSE
  /\ UNCHANGED <<patients, trackedPeople, stats>>

\* MutationResult with the catch block returning true as well.
MutationResult_Optimistic(gwOk) == "true"

\* The value a mutation function returns, and what the App handler that awaited
\* it resolves with (the handlers have no return value).
MutationResult(gwOk) == IF gwOk THEN "true" ELSE "false"
CompletedReturn(result) == Undefined
RejectedReturn == Undefined

\* The mutation m returns to its caller.
ReturnMut(ms, m, gwOk, refetched) ==
  /\ muts' = ms (-) SetToBag({m})
  /\ lastMut' = [gwOk |-> gwOk, result |-> MutationResult(gwOk), calls |-> m.calls,
                 refetched |-> refetched, threw |-> FALSE]
  /\ handlerRets' = [handlerRets EXCEPT !["completed"] =
                       @ \cup {CompletedReturn(MutationResult(gwOk))}]

\* ResumeMuts with a failure of the awaited fetchData reaching the catch block
\* of the mutation, which returns false.
ResumeMuts_FetchRethrows(f) ==
  IF \E m \in BagToSet(muts) : m.phase = "refetch" /\ m.fetch = f
  THEN LET m == CHOOSE k \in BagToSet(muts) : k.phase = "refetch" /\ k.fetch = f
       IN ReturnMut(muts, m, lastDone'.ok, TRUE)
  ELSE UNCHANGED mutVars

\* fetchData f has completed: the mutation that awaits it, if any, returns true.
ResumeMuts(f) ==
  IF \E m \in BagToSet(muts) : m.phase = "refetch" /\ m.fetch = f
  THEN LET m == CHOOSE k \in BagToSet(muts) : k.phase = "refetch" /\ k.fetch = f
       IN ReturnMut(muts, m, TRUE, TRUE)
  ELSE UNCHANGED mutVars

\* Does fetchData() get as far as awaiting Promise.all: the older hook reads no
\* layout, the current one calls api.getFloorPlan().
FetchIssued == legacyHook \/ hasGetFloorPlan

\* What is remembered of the last call that completed: its outcome, the error
\* it caught, where that error came from (a mandatory read, the call of
\* api.getFloorPlan, "none" for a success) and the mandatory reads that the
\* gateway has answered with success.
Done(f, ok, msg, failed, okReads) ==
  [id |-> f, ok |-> ok, err |-> msg, failed |-> failed, okReads |-> okReads]

\* A call of fetchData() when the gateway holds list.  Without the getFloorPlan export the three reads
\* before it in the array are issued, api.getFloorPlan() throws and the catch
\* block runs in the same task.
StartFetchAt(list) ==
  /\ nextFetch <= MaxFetches
  /\ nextFetch' = nextFetch + 1
  /\ IF FetchIssued
     THEN /\ fetches' = fetches @@ (nextFetch :> list)
          /\ UNCHANGED <<hookVars, lastDone, lastOkId>>
     ELSE /\ FetchFailure(TypeErrorMsg)
          /\ lastDone' = Done(nextFetch, FALSE, TypeErrorMsg, "floorPlan", {})
          /\ UNCHANGED <<fetches, lastOkId>>

StartFetch == StartFetchAt(upTracked)

\* The continuation of await Promise.all([...]) for call f, and what follows
\* it: the try block or the catch block, finally, and the return to a mutation
\* that awaits this call.
Settle(f, ok, msg, failed, okReads, layoutOk) ==
  /\ fetches' = [g \in DOMAIN fetches \ {f} |-> fetches[g]]
  /\ lastDone' = Done(f, ok, msg, failed, okReads)
  /\ lastOkId' = IF ok THEN f ELSE lastOkId
  /\ IF ok THEN FetchSuccess(f, layoutOk) ELSE FetchFailure(msg)
  /\ ResumeMuts(f)
  /\ UNCHANGED nextFetch

\* Promise.all of call f resolves: the gateway has answered the three mandatory
\* reads with 2xx and a parsed body, and the layout read has either resolved
\* (layoutOk) or rejected, which .catch(() => null) turns into null.
PromiseAllResolves(f, layoutOk) ==
  /\ f \in DOMAIN fetches
  /\ layoutOk => ~legacyHook
  /\ Settle(f, TRUE, NoError, "none", Mandatory, layoutOk)
  /\ UNCHANGED <<hasGetFloorPlan, legacyHook, api, panel, upTracked, view, appVars, mounted, intervals>>

\* Promise.all of call f rejects with the first rejection among its members:
\* fetchAPI threw msg for the mandatory read r (transport error or non-2xx)
\* when the gateway had answered the other mandatory reads with success
\* (othersOk) or had not answered them yet.
PromiseAllRejects(f, r, msg, othersOk) ==
  /\ f \in DOMAIN fetches
  /\ Settle(f, FALSE, msg, r, IF othersOk THEN Mandatory \ {r} ELSE {}, FALSE)
  /\ UNCHANGED <<hasGetFloorPlan, legacyHook, api, panel, upTracked, view, appVars, mounted, intervals>>

\* The gateway handles GET /tracked of call f now, not when the call was made.
GatewayServesTracked(f) ==
  /\ f \in DOMAIN fetches
  /\ fetches[f] # upTracked
  /\ fetches' = [fetches EXCEPT ![f] = upTracked]
  /\ UNCHANGED <<hasGetFloorPlan, legacyHook, api, panel, upTracked, view, hookVars, appVars, mounted, intervals, nextFetch,
                 lastDone, lastOkId, mutVars>>

\* The gateway answers, with success, the mandatory reads of the last call that
\* it had not answered when that call completed as a failure: the responses
\* reach no code.  (No other response to a completed call is followed.)
LateReadsOk ==
  /\ lastDone.id # 0
  /\ ~lastDone.ok
  /\ lastDone.okReads # Mandatory \ {lastDone.failed}
  /\ lastDone' = [lastDone EXCEPT !.okReads = Mandatory \ {lastDone.failed}]
  /\ UNCHANGED <<hasGetFloorPlan, legacyHook, api, panel, upTracked, view, hookVars, appVars, mounted, intervals, fetches, nextFetch,
                 lastOkId, mutVars>>

\* ----------------------------------------------------------- polling effect
\* App.jsx: useAegisData(autoRefresh ? 2000 : null)
PollIntervalArg(auto) == IF auto THEN POLL_DEFAULT ELSE NullInterval

\* typeof pollInterval === "number" && pollInterval > 0
TimerWanted(pollInterval) == pollInterval # NullInterval /\ pollInterval > 0

\* Is an interval running after the effect has run: the current hook returns
\* before setInterval unless the interval is a positive number, the older one
\* calls setInterval(fetchData, pollInterval) whatever pollInterval is, and a
\* null delay is a delay of 0.
IntervalSet(pollInterval) == legacyHook \/ TimerWanted(pollInterval)

\* The intervals a run of the effect creates.
Created(pollInterval) == IF IntervalSet(pollInterval) THEN 1 ELSE 0

\* EffectCleanup with no cleanup function returned by the effect.
EffectCleanup_None(n) == n

\* The cleanup of the last run of the effect, before the effect runs again:
\* clearInterval(interval) if that run created one.
EffectCleanup(n) == n - Created(PollIntervalArg(autoRefresh))

\* First run of the effect, after the first render.
Mount ==
  /\ ~mounted
  /\ mounted' = TRUE
  /\ StartFetch
  /\ intervals' = Created(PollIntervalArg(autoRefresh))
  /\ UNCHANGED <<hasGetFloorPlan, legacyHook, api, panel, upTracked, view, appVars, mutVars>>

\* setInterval callback.
PollTick ==
  /\ mounted
  /\ timerOn
  /\ StartFetch
  /\ UNCHANGED <<hasGetFloorPlan, legacyHook, api, panel, upTracked, view, appVars, mounted, intervals, mutVars>>

\* "retry connection" in the banner, shown when !loading && !isConnected && !useMockData
\* (the older App takes no refresh from the hook and has no such button).
Refresh ==
  /\ mounted
  /\ ~legacyHook
  /\ ~loading /\ ~isConnected /\ ~useMockData
  /\ StartFetch
  /\ UNCHANGED <<hasGetFloorPlan, legacyHook, api, panel, upTracked, view, appVars, mounted, intervals, mutVars>>

\* Auto Refresh checkbox: pollInterval changes, the effect's cleanup clears the
\* interval and the effect runs again.
ToggleAutoRefresh ==
  /\ mounted
  /\ autoRefresh' = ~autoRefresh
  /\ StartFetch
  /\ intervals' = EffectCleanup(intervals) + Created(PollIntervalArg(autoRefresh'))
  /\ UNCHANGED <<hasGetFloorPlan, legacyHook, api, panel, upTracked, view, useMockData, mounted, mutVars>>

\* Mock Data checkbox.
ToggleMockData ==
  /\ mounted
  /\ useMockData' = ~useMockData
  /\ UNCHANGED <<hasGetFloorPlan, legacyHook, api, panel, upTracked, view, hookVars, autoRefresh, mounted, intervals, fetchVars, mutVars>>

\* ------------------------------------------------------ mutation coordinator
\* App.jsx handlers: if (useMockData || !isConnected) return;
NotConnected == useMockData \/ ~isConnected

\* The first statement of a mutation function: one gateway call is issued
\* (fetchAPI with POST), and the function awaits it.  The record notes whether
\* the view was not connected when the call was issued.
CallGateway(kind, t, p) ==
  /\ BagCardinality(muts) < MaxMuts
  /\ muts' = muts (+) SetToBag({[kind |-> kind, t |-> t, p |-> p, phase |-> "call",
                                  calls |-> 1, fetch |-> 0, offline |-> NotConnected,
                                  linked |-> FALSE]})
  /\ UNCHANGED <<lastMut, handlerRets>>

enroll(trackId, patientId) == CallGateway("enroll", trackId, patientId)
updateVitals(patientId) == CallGateway("updateVitals", Empty, patientId)
addPerson == CallGateway("addPerson", Empty, Empty)
setupDemo == CallGateway("setupDemo", Empty, Empty)
clearAll == CallGateway("clearAll", Empty, Empty)

RejectLocally ==
  /\ handlerRets' = [handlerRets EXCEPT !["rejected"] = @ \cup {RejectedReturn}]
  /\ UNCHANGED <<muts, lastMut>>

Handler(call) ==
  /\ mounted
  /\ IF NotConnected THEN RejectLocally ELSE call
  /\ UNCHANGED <<hasGetFloorPlan, legacyHook, api, panel, upTracked, view, hookVars, appVars, mounted, intervals, fetchVars>>

\* onEnroll / onUpdateVitals / onAddPerson / onSetupDemo / onClearAll
handleEnroll(trackId, patientId) == Handler(enroll(trackId, patientId))
handleUpdateVitals(patientId) == Handler(updateVitals(patientId))
handleAddPerson == Handler(addPerson)
handleSetupDemo == Handler(setupDemo)
handleClearAll == Handler(clearAll)

\* Sidebar.jsx handleEnroll: if (selectedTrack && selectedPatient) await onEnroll(...)
SidebarHandleEnroll(selectedTrack, selectedPatient) ==
  /\ selectedTrack # Empty /\ selectedPatient # Empty
  /\ handleEnroll(selectedTrack, selectedPatient)

\* The gateway has handled mutation m and its 2xx answer arrives:
\* await fetchData(), then return true.
MutationOk(m) ==
  /\ m \in BagToSet(muts)
  /\ m.phase = "call"
  /\ upTracked' = UpstreamApply(m, upTracked)
  /\ StartFetchAt(UpstreamApply(m, upTracked))
  /\ IF FetchIssued
     THEN /\ muts' = (muts (-) SetToBag({m}))
                        (+) SetToBag({[m EXCEPT !.phase = "refetch", !.fetch = nextFetch,
                                                !.linked = UpstreamLinks(m, upTracked)]})
          /\ UNCHANGED <<lastMut, handlerRets>>
     ELSE ReturnMut(muts, m, TRUE, TRUE)
  /\ UNCHANGED <<hasGetFloorPlan, legacyHook, api, panel, view, appVars, mounted, intervals>>

\* The gateway call of mutation m rejects: the catch block returns false.  The
\* gateway answered non-2xx, or the request or its answer was lost; only when
\* the answer was lost has the gateway handled the request (handled).
MutationFail(m, handled) ==
  /\ m \in BagToSet(muts)
  /\ m.phase = "call"
  /\ upTracked' = IF handled THEN UpstreamApply(m, upTracked) ELSE upTracked
  /\ ReturnMut(muts, m, FALSE, FALSE)
  /\ UNCHANGED <<hasGetFloorPlan, legacyHook, api, panel, view, hookVars, appVars, mounted, intervals, fetchVars>>

\* ---------------------------------------------------------------- rendering
\* PatientList.jsx: byRisk, patients.filter((p) => p.risk_level === level)
byRisk(patientList) ==
  [level \in {"high", "medium", "low"} |-> { p \in patientList : p.risk_level = level }]

\* CriticalAlert.jsx: the high-risk patients that some tracked person points to
criticalLocated(patientList, trackedList) ==
  { p \in { q \in patientList : q.risk_level = "high" } :
      \E t \in trackedList : t.patient_id = p.patient_id }

\* StatsBar: the five items it shows (staff_count is not among them)
StatsBar(st) ==
  [Tracked |-> st.total_tracked, Enrolled |-> st.tagged_patients, Unknown |-> st.untagged,
   Critical |-> st.critical_located, Urgent |-> st.urgent_located]

\* Sidebar.jsx: trackedPeople.filter((t) => !t.patient_id && t.person_type !== "staff")
unidentified(trackedList) ==
  { t \in trackedList : t.patient_id = NoPatient /\ t.person_type # "staff" }

\* Sidebar.jsx: the patients no tracked person points to
enrolledIds(trackedList) == { t.patient_id : t \in { u \in trackedList : u.patient_id # NoPatient } }
availablePatients(patientList, trackedList) ==
  { p \in patientList : p.patient_id \notin enrolledIds(trackedList) }

\* FloorMap.jsx getPatientInfo: the patient record a tracked person points to;
\* the undefined of patients.find and the null of a person without patient_id
\* are the empty set here.
getPatientInfo(patientList, tracked) ==
  IF tracked.patient_id = NoPatient
  THEN {}
  ELSE LET found == { p \in patientList : p.patient_id = tracked.patient_id }
       IN IF found = {} THEN {} ELSE {CHOOSE p \in found : TRUE}

\* FloorMap.jsx getDotColor, getDotSize and the label of a dot
STAFF_COLOR == "#3b82f6"
UNKNOWN_COLOR == "#64748b"
getDotColor(patientList, tracked) ==
  LET patient == getPatientInfo(patientList, tracked)
  IN IF patient # {} THEN (CHOOSE p \in patient : TRUE).status_color
     ELSE IF tracked.person_type = "staff" THEN STAFF_COLOR ELSE UNKNOWN_COLOR

getDotSize(patientList, tracked) ==
  LET patient == getPatientInfo(patientList, tracked)
  IN IF patient # {} /\ (CHOOSE p \in patient : TRUE).risk_level = "high" THEN 18
     ELSE IF patient # {} /\ (CHOOSE p \in patient : TRUE).risk_level = "medium" THEN 15
     ELSE 12

getDotLabel(patientList, tracked) ==
  LET patient == getPatientInfo(patientList, tracked)
  IN IF patient # {} THEN (CHOOSE p \in patient : TRUE).patient_id ELSE tracked.track_id

\* The dots FloorMap draws, one per tracked person.
Dots(patientList, trackedList) ==
  { [track_id |-> t.track_id, color |-> getDotColor(patientList, t),
     size |-> getDotSize(patientList, t), label |-> getDotLabel(patientList, t)]
    : t \in trackedList }

\* A value of the floor plan that carries a layout: where it comes from, and
\* the width, height and zones the gateway sent.
Layout(d, width, height, zones) == d @@ [width |-> width, height |-> height, zones |-> zones]

\* FloorMap.jsx ZONE_COLORS[z.camera_name] ?? "#64748b"
ZoneColor(name) ==
  CASE name = "Corridor A" -> "#6b7280" [] name = "Waiting Room" -> "#8b5cf6"
    [] name = "Triage" -> "#3b82f6" [] name = "Treatment" -> "#10b981"
    [] OTHER -> "#64748b"

\* A zone as the gateway sends it and as FloorMap draws it.
RawZone(id, name, x, y, w, h) ==
  [camera_id |-> id, camera_name |-> name, map_x |-> x, map_y |-> y, map_width |-> w,
   map_height |-> h]
DrawnZone(id, name, x, y, w, h, color) ==
  [id |-> id, name |-> name, x |-> x, y |-> y, width |-> w, height |-> h, color |-> color]

\* mockZones, and mockZones.map((z, i) => ({ ...z, id: z.name + i }))
mockZones ==
  << [name |-> "Triage", x |-> 50, y |-> 50, width |-> 200, height |-> 150, color |-> "#3b82f6"],
     [name |-> "Waiting Room", x |-> 300, y |-> 50, width |-> 250, height |-> 200, color |-> "#8b5cf6"],
     [name |-> "Treatment Bay A", x |-> 50, y |-> 250, width |-> 200, height |-> 200, color |-> "#10b981"],
     [name |-> "Treatment Bay B", x |-> 300, y |-> 300, width |-> 200, height |-> 150, color |-> "#10b981"],
     [name |-> "Corridor", x |-> 550, y |-> 50, width |-> 100, height |-> 400, color |-> "#6b7280"] >>
BuiltInZones ==
  [i \in 1..Len(mockZones) |->
     DrawnZone(mockZones[i].name \o ToString(i - 1), mockZones[i].name, mockZones[i].x,
               mockZones[i].y, mockZones[i].width, mockZones[i].height, mockZones[i].color)]

\* FloorMap.jsx: floorPlan?.width ?? 700, floorPlan?.height ?? 500, and the
\* zones of the floor plan when it has any, the built-in ones otherwise.
DEFAULT_WIDTH == 700
DEFAULT_HEIGHT == 500
HasLayout(fp) == fp.src # "null"
MapWidth(fp) == IF HasLayout(fp) THEN fp.width ELSE DEFAULT_WIDTH
MapHeight(fp) == IF HasLayout(fp) THEN fp.height ELSE DEFAULT_HEIGHT
MapZones(fp) ==
  IF HasLayout(fp) /\ Len(fp.zones) # 0
  THEN [i \in 1..Len(fp.zones) |->
          DrawnZone(fp.zones[i].camera_id, fp.zones[i].camera_name, fp.zones[i].map_x,
                    fp.zones[i].map_y, fp.zones[i].map_width, fp.zones[i].map_height,
                    ZoneColor(fp.zones[i].camera_name))]
  ELSE BuiltInZones
FloorMap(fp) == [width |-> MapWidth(fp), height |-> MapHeight(fp), zones |-> MapZones(fp)]

\* What App's render hands to the components and what they derive from it.
RenderModel ==
  [rendered |-> TRUE,
   map |-> FloorMap(ShownFloorPlan),
   dots |-> Dots(ShownPatients.list, ShownTracked.list),
   statsBar |-> StatsBar(ShownStats),
   criticalLocated |-> criticalLocated(ShownPatients.list, ShownTracked.list),
   byRisk |-> byRisk(ShownPatients.list),
   unidentified |-> unidentified(ShownTracked.list),
   availablePatients |-> availablePatients(ShownPatients.list, ShownTracked.list)]

\* A render of App and its components.
Render ==
  /\ view # RenderModel
  /\ view' = RenderModel
  /\ UNCHANGED <<hasGetFloorPlan, legacyHook, api, panel, upTracked, hookVars, appVars, mounted, intervals, fetchVars,
                 mutVars>>

\* The action functions in the object that useAegisData returns.
Actions == {"enroll", "updateVitals", "addPerson", "setupDemo", "clearAll", "refresh"}

\* ------------------------------------------------------------ specification
Common ==
  \/ Mount
  \/ PollTick
  \/ ToggleAutoRefresh
  \/ ToggleMockData
  \/ \E f \in 1..MaxFetches, layoutOk \in BOOLEAN : PromiseAllResolves(f, layoutOk)
  \/ \E f \in 1..MaxFetches, r \in Mandatory, msg \in ErrMsgs, othersOk \in BOOLEAN :
       PromiseAllRejects(f, r, msg, othersOk)
  \/ LateReadsOk
  \/ \E t \in TrackIds \cup {Empty}, p \in PatientIds \cup {Empty} : handleEnroll(t, p)
  \/ \E t \in TrackIds \cup {Empty}, p \in PatientIds \cup {Empty} : SidebarHandleEnroll(t, p)
  \/ \E p \in PatientIds : handleUpdateVitals(p)
  \/ handleAddPerson
  \/ handleSetupDemo
  \/ handleClearAll
  \/ \E m \in BagToSet(muts) : MutationOk(m)
  \/ \E m \in BagToSet(muts), handled \in BOOLEAN : MutationFail(m, handled)

Next ==
  \/ Common
  \/ Refresh

Spec == Init /\ [][Next]_vars

\* The older copy of the hook and of App.
SpecLegacy == InitLegacy /\ [][Common]_vars

\* The same front end in front of a gateway that tracks the persons of TrackIds:
\* its answer to GET /tracked depends on when it handles the request.
NextTracked ==
  \/ Next
  \/ \E f \in 1..MaxFetches : GatewayServesTracked(f)

SpecTracked == InitTracked /\ [][NextTracked]_vars

\* ------------------------------------------------- rendering of a snapshot
\* Risk band of a score (0..12): high from 7, medium for 5 and 6, low up to 4.
Band(s) == IF s >= 7 THEN "high" ELSE IF s >= 5 THEN "medium" ELSE "low"

\* The snapshots a gateway may answer with: at most one patient, each of two
\* tracked persons absent or present, not enrolled, enrolled as that patient or
\* pointing to a patient that is not on the list.
ViewTrackIds == {"T1", "T2"}
ViewPatientIds == {"P1"}
DanglingId == "P9"
ViewScores == {4, 5, 6, 7, 9}
Kinds == {"patient", "staff", "unknown"}
Absent == <<"absent", "absent">>
\* The layouts a gateway may answer with: 800 by 600, with no zone, one or two.
ViewZones ==
  { <<>>,
    << RawZone("cam_triage", "Triage", 40, 40, 300, 200) >>,
    << RawZone("cam_triage", "Triage", 40, 40, 300, 200),
       RawZone("cam_lobby", "Lobby", 400, 40, 300, 200) >> }
ViewLayouts == { Layout(Gw("floorPlan", 1), 800, 600, zones) : zones \in ViewZones }

ViewPatientLists ==
  {{}} \cup { {Patient(p, sc, l)} : p \in ViewPatientIds, sc \in ViewScores,
                                   l \in {"high", "medium", "low"} }
ViewRawLists ==
  { { RawEntity(t, f[t][1], MapPos, f[t][2]) : t \in { u \in ViewTrackIds : f[u] # Absent } }
    : f \in [ViewTrackIds ->
               {Absent} \cup (({NoPatient, DanglingId} \cup ViewPatientIds) \X Kinds)] }

\* The stats the gateway computes for a snapshot.
Resolved(patientList, t) == { p \in patientList : p.patient_id = t.patient_id }
UpstreamStats(d, patientList, rawList) ==
  StatsObject(d,
    Cardinality(rawList),
    Cardinality({ t \in rawList : t.patient_id # NoPatient }),
    Cardinality({ t \in rawList : t.patient_id = NoPatient /\ t.person_type # "staff" }),
    Cardinality({ t \in rawList : t.patient_id = NoPatient /\ t.person_type = "staff" }),
    Cardinality({ t \in rawList :
                    \E p \in Resolved(patientList, t) : Band(p.news2_score) = "high" }),
    Cardinality({ t \in rawList :
                    \E p \in Resolved(patientList, t) : Band(p.news2_score) = "medium" }))

\* The front end when the last fetch has completed: as a success that stored a
\* snapshot, or as a failure after such a success.
InitView ==
  /\ hasGetFloorPlan = TRUE
  /\ legacyHook = FALSE
  /\ upTracked = {}
  /\ view = NoView
  /\ api = NoCall
  /\ panel = NoSelection
  /\ \E patientList \in ViewPatientLists, rawList \in ViewRawLists :
       /\ patients = PatientList(Gw("patients", 1), patientList)
       /\ trackedPeople = transformedTracked(TrackedList(Gw("tracked", 1), rawList))
       /\ stats = UpstreamStats(Gw("stats", 1), patientList, rawList)
  /\ isConnected \in BOOLEAN
  /\ floorPlan \in IF isConnected THEN ViewLayouts ELSE {NullData}
  /\ loading = FALSE
  /\ error = IF isConnected THEN NoError ELSE "API Error: 500"
  /\ autoRefresh = TRUE
  /\ useMockData \in BOOLEAN
  /\ mounted = TRUE
  /\ intervals = 1
  /\ fetches = <<>>
  /\ nextFetch = IF isConnected THEN 2 ELSE 3
  /\ lastDone = IF isConnected THEN Done(1, TRUE, NoError, "none", Mandatory)
                                ELSE Done(2, FALSE, "API Error: 500", "stats", {})
  /\ lastOkId = 1
  /\ muts = EmptyBag
  /\ lastMut = NoMut
  /\ handlerRets = [o \in {"rejected", "completed"} |-> {}]

NextView ==
  \/ Render
  \/ ToggleMockData

SpecView == InitView /\ [][NextView]_vars

\* --------------------------------------------------------- enrolment panel
\* The snapshots a gateway may answer with while the operator uses the panel:
\* the patient P1, and each of two tracked persons absent, not enrolled or
\* enrolled as P1.
PanelPatientList == { Patient(p, 9, "high") : p \in ViewPatientIds }
PanelRawLists ==
  { { RawEntity(t, f[t], MapPos, IF f[t] = NoPatient THEN "unknown" ELSE "patient")
      : t \in { u \in ViewTrackIds : f[u] # "absent" } }
    : f \in [ViewTrackIds -> {"absent", NoPatient} \cup ViewPatientIds] }

\* The front end, Live with the mock switch off, showing one of those snapshots.
InitPanel ==
  /\ hasGetFloorPlan = TRUE
  /\ legacyHook = FALSE
  /\ upTracked = {}
  /\ view = NoView
  /\ api = NoCall
  /\ panel = NoSelection
  /\ patients = PatientList(Gw("patients", 1), PanelPatientList)
  /\ \E rawList \in PanelRawLists :
       /\ trackedPeople = transformedTracked(TrackedList(Gw("tracked", 1), rawList))
       /\ stats = UpstreamStats(Gw("stats", 1), PanelPatientList, rawList)
  /\ isConnected = TRUE
  /\ floorPlan = NullData
  /\ loading = FALSE
  /\ error = NoError
  /\ autoRefresh = TRUE
  /\ useMockData = FALSE
  /\ mounted = TRUE
  /\ intervals = 1
  /\ fetches = <<>>
  /\ nextFetch = 2
  /\ lastDone = Done(1, TRUE, NoError, "none", Mandatory)
  /\ lastOkId = 1
  /\ muts = EmptyBag
  /\ lastMut = NoMut
  /\ handlerRets = [o \in {"rejected", "completed"} |-> {}]

\* Is the form of the enrolment panel rendered (unidentified.length === 0 shows
\* "All patients enrolled" in its place).
PanelShown == unidentified(ShownTracked.list) # {}

\* The options of the two selects, "Select person..." and "Select patient..."
\* included.
TrackOptions == {Empty} \cup { t.track_id : t \in unidentified(ShownTracked.list) }
PatientOptions ==
  {Empty} \cup { p.patient_id : p \in availablePatients(ShownPatients.list, ShownTracked.list) }

\* onChange of the first select: setSelectedTrack(e.target.value)
SelectTrack(t) ==
  /\ PanelShown
  /\ t \in TrackOptions
  /\ panel' = [panel EXCEPT !.selectedTrack = t]
  /\ UNCHANGED <<hasGetFloorPlan, legacyHook, api, upTracked, view, hookVars, appVars, mounted,
                 intervals, fetchVars, mutVars>>

\* onChange of the second select: setSelectedPatient(e.target.value)
SelectPatient(p) ==
  /\ PanelShown
  /\ p \in PatientOptions
  /\ panel' = [panel EXCEPT !.selectedPatient = p]
  /\ UNCHANGED <<hasGetFloorPlan, legacyHook, api, upTracked, view, hookVars, appVars, mounted,
                 intervals, fetchVars, mutVars>>

\* A poll completes as a success and replaces the snapshot: the try block of
\* fetchData for the call that the interval started, with what the gateway
\* answered.
SnapshotReplaced(rawList) ==
  /\ nextFetch <= MaxFetches
  /\ nextFetch' = nextFetch + 1
  /\ patients' = PatientList(Gw("patients", nextFetch), PanelPatientList)
  /\ trackedPeople' = transformedTracked(TrackedList(Gw("tracked", nextFetch), rawList))
  /\ stats' = UpstreamStats(Gw("stats", nextFetch), PanelPatientList, rawList)
  /\ floorPlan' = NullData
  /\ error' = NoError
  /\ isConnected' = TRUE
  /\ loading' = FALSE
  /\ lastDone' = Done(nextFetch, TRUE, NoError, "none", Mandatory)
  /\ lastOkId' = nextFetch
  /\ UNCHANGED <<hasGetFloorPlan, legacyHook, api, panel, upTracked, view, appVars, mounted,
                 intervals, fetches, mutVars>>

\* onClick of "Enroll Patient" (disabled unless both selections are set):
\* Sidebar.handleEnroll up to its await.
ClickEnroll ==
  /\ PanelShown
  /\ SidebarHandleEnroll(panel.selectedTrack, panel.selectedPatient)

\* Sidebar.handleEnroll after await onEnroll(...): the enroll call m has
\* returned, and both selections are reset.
EnrollReturned(m) ==
  /\ m \in BagToSet(muts)
  /\ muts' = muts (-) SetToBag({m})
  /\ panel' = NoSelection
  /\ UNCHANGED <<hasGetFloorPlan, legacyHook, api, upTracked, view, hookVars, appVars, mounted,
                 intervals, fetchVars, lastMut, handlerRets>>

NextPanel ==
  \/ \E t \in ViewTrackIds \cup {Empty} : SelectTrack(t)
  \/ \E p \in ViewPatientIds \cup {Empty} : SelectPatient(p)
  \/ \E rawList \in PanelRawLists : SnapshotReplaced(rawList)
  \/ ClickEnroll
  \/ \E m \in BagToSet(muts) : EnrollReturned(m)

SpecPanel == InitPanel /\ [][NextPanel]_vars

\* --------------------------------------------------------------- api client
\* The exported gateway operations that go through fetchAPI.
Operations ==
  {"getPatients", "getPatient", "getPatientsByRisk", "getTracked", "getTrackedPatients",
   "getUnidentified", "enrollPatient", "unenrollPatient", "getStats", "demoSetup",
   "demoClear", "demoAddPerson", "demoUpdateVitals", "healthCheck"}

\* Responses of the gateway: a status and a body, which is JSON text or not.
Statuses == {200, 201, 299, 300, 304, 400, 404, 422, 500, 503}
Bodies == {"[]", "{\"detail\":\"Not Found\"}", "<html>Bad Gateway</html>", ""}
Responses == [status : Statuses, body : Bodies]

\* response.ok
ResponseOk(response) == response.status >= 200 /\ response.status <= 299

\* response.json(): the parsed value of a body that is JSON text, a rejection
\* with a SyntaxError for one that is not.
IsJson(body) == body \in {"[]", "{\"detail\":\"Not Found\"}"}
ParseJson(body) ==
  CASE body = "[]" -> [kind |-> "array", items |-> <<>>]
    [] body = "{\"detail\":\"Not Found\"}" -> [kind |-> "object", detail |-> "Not Found"]
Json(body) ==
  IF IsJson(body)
  THEN [threw |-> FALSE, name |-> "none", message |-> "none", value |-> ParseJson(body),
        bodyRead |-> TRUE]
  ELSE [threw |-> TRUE, name |-> "SyntaxError", message |-> "Unexpected token",
        value |-> Undefined, bodyRead |-> TRUE]

\* fetchAPI with the test of response.ok left out.
fetchAPI_NoStatusTest(response) == Json(response.body)

\* fetchAPI, once fetch() has resolved with response.
fetchAPI(response) ==
  IF ~ResponseOk(response)
  THEN [threw |-> TRUE, name |-> "Error",
        message |-> "API Error: " \o ToString(response.status),
        value |-> Undefined, bodyRead |-> FALSE]
  ELSE Json(response.body)

\* A gateway operation is called and the gateway answers it.
CallOperation(op, response) ==
  /\ api' = [called |-> TRUE, op |-> op, response |-> response, outcome |-> fetchAPI(response)]
  /\ UNCHANGED <<hasGetFloorPlan, legacyHook, panel, upTracked, view, hookVars, appVars, mounted,
                 intervals, fetchVars, mutVars>>

NextApi == \E op \in Operations, response \in Responses : CallOperation(op, response)

SpecApi == Init /\ [][NextApi]_vars

TypeOK ==
  /\ hasGetFloorPlan \in BOOLEAN
  /\ legacyHook \in BOOLEAN
  /\ loading \in BOOLEAN /\ isConnected \in BOOLEAN
  /\ error \in {NoError, TypeErrorMsg} \cup ErrMsgs
  /\ nextFetch \in 1..(MaxFetches + 1)
  /\ intervals \in 0..1
  /\ panel \in [selectedTrack : ViewTrackIds \cup {Empty}, selectedPatient : ViewPatientIds \cup {Empty}]
  /\ DOMAIN fetches \subseteq 1..MaxFetches
  /\ upTracked \in UpstreamLists
  /\ IsABag(muts) /\ BagCardinality(muts) <= MaxMuts

\* ------------------------------------------------------------------ claims

\* C1: the data shown is a function of (connectivity, simulation flag): when
\* connectivity is not Live or the flag is set the fallback data set is shown,
\* and when connectivity is Live and the flag is unset the data of the latest
\* successful fetch is shown.
C1_FallbackSelection ==
  /\ (Connectivity # "Live" \/ useMockData) =>
       /\ ShownPatients = mockPatients
       /\ ShownTracked = mockTrackedPeople
       /\ ShownStats = mockStats
  /\ (Connectivity = "Live" /\ ~useMockData) =>
       /\ lastOkId # 0
       /\ ShownPatients = Gw("patients", lastOkId)
       /\ \E list \in UpstreamLists :
            ShownTracked = transformedTracked(TrackedList(Gw("tracked", lastOkId), list))
       /\ ShownStats = Gw("stats", lastOkId)

\* Live with the flag set, after a second fetch has succeeded.
C1_Witness == Connectivity = "Live" /\ useMockData /\ lastOkId = 2

\* C2: a fetch one of whose mandatory reads fails is a failure: connectivity
\* is Offline, last_error is the message of that first error, and nothing the
\* fetch read is stored.
C2_MandatoryFailure ==
  (lastDone.id # 0 /\ lastDone.failed \in Mandatory) =>
     /\ ~lastDone.ok
     /\ Connectivity = "Offline"
     /\ error = lastDone.err
     /\ error \in ErrMsgs
     /\ patients.fetch # lastDone.id
     /\ trackedPeople.fetch # lastDone.id
     /\ stats.fetch # lastDone.id
     /\ floorPlan = NullData

\* The stats read failed and the subjects and tracked-entity reads succeeded.
C2_Witness ==
  /\ lastDone.failed = "stats"
  /\ lastDone.okReads = {"patients", "tracked"}
  /\ lastOkId # 0

\* The optional layout read of the last completed call did not succeed.
LayoutReadFailed ==
  \/ lastDone.ok /\ floorPlan = NullData
  \/ lastDone.failed = "floorPlan"

\* C3: a fetch whose layout read fails and whose three mandatory reads succeed
\* completes as a success: connectivity is Live, the stored lists are the ones
\* just fetched and the layout is absent.
C3_OptionalLayoutFailure ==
  (lastDone.id # 0 /\ lastDone.okReads = Mandatory /\ LayoutReadFailed) =>
     /\ lastDone.ok
     /\ Connectivity = "Live"
     /\ patients = Gw("patients", lastDone.id)
     /\ \E list \in UpstreamLists :
          trackedPeople = transformedTracked(TrackedList(Gw("tracked", lastDone.id), list))
     /\ floorPlan = NullData

\* C4: connectivity starts as Connecting, changes only when a fetch completes,
\* then to Live after a success and to Offline after a failure, and Connecting
\* is never entered again.
C4_ConnectivityTransitions ==
  /\ Connectivity = "Connecting"
  /\ [][/\ lastDone'.id = lastDone.id => Connectivity' = Connectivity
        /\ lastDone'.id # lastDone.id =>
             Connectivity' = (IF lastDone'.ok THEN "Live" ELSE "Offline")
        /\ Connectivity' = "Connecting" => Connectivity = "Connecting"]_vars

\* Offline after having been Live.
C4_Witness == Connectivity = "Offline" /\ lastOkId # 0 /\ lastDone.id > lastOkId

\* C5: every published field that comes from the gateway comes from the most
\* recently completed successful fetch, and in a Live view all of them do.
C5_NoTornSnapshot ==
  /\ \A d \in {ShownPatients, ShownTracked, ShownStats, ShownFloorPlan} :
       d.src = "gw" => d.fetch = lastOkId
  /\ (Connectivity = "Live" /\ ~useMockData) =>
       /\ ShownPatients.src = "gw"
       /\ ShownTracked.src = "gw"
       /\ ShownStats.src = "gw"
       /\ ShownFloorPlan \in {NullData, Gw("floorPlan", lastOkId)}

\* Two fetches overlapped: the second has been published while the first is
\* still in flight.
C5_Witness ==
  /\ Connectivity = "Live" /\ ~useMockData
  /\ lastOkId = 2
  /\ 1 \in InFlight

\* C6: at most one fetch is in flight at any time.
C6_SingleFlight == Cardinality(InFlight) <= 1

\* C7: every mutation call that reached the gateway started a re-fetch before
\* it returned, whether the gateway call succeeded or failed.
C7_AlwaysRefetch == lastMut.calls > 0 => lastMut.refetched

\* C8: a mutation the gateway rejected made exactly one gateway call, did not
\* throw and returned the failure value.
C8_MutationFailure ==
  /\ \A m \in BagToSet(muts) : m.calls = 1
  /\ (lastMut.calls > 0 /\ ~lastMut.gwOk) =>
       /\ lastMut.calls = 1
       /\ ~lastMut.threw
       /\ lastMut.result = "false"

\* A mutation has returned after the gateway rejected it.
C8_Witness == lastMut.calls > 0 /\ ~lastMut.gwOk /\ Connectivity = "Live"

\* C9: no enroll request with an empty track id or an empty subject id reaches
\* the gateway.
C9_EnrollValidation ==
  \A m \in BagToSet(muts) :
    m.kind = "enroll" => m.t # Empty /\ m.p # Empty

\* C10: while not connected a user-triggered mutation issues no gateway call,
\* and what its caller receives differs from what the caller of a completed
\* mutation receives.
C10_RejectedWhenNotConnected ==
  /\ \A m \in BagToSet(muts) : ~m.offline
  /\ handlerRets["rejected"] \cap handlerRets["completed"] = {}

\* C11: mutations are serialized: at most one mutation call is awaiting the
\* gateway or its re-fetch at any time.
C11_Serialized == BagCardinality(muts) <= 1

\* A mutation that awaits its re-fetch and returns in this step, the re-fetch
\* having completed as a success.
ReturnsAfterRefetch(m) ==
  /\ m \in BagToSet(muts)
  /\ m.phase = "refetch"
  /\ m.fetch \in InFlight
  /\ m.fetch \notin DOMAIN fetches'
  /\ lastOkId' = m.fetch

\* C12: when enroll(t, p), for a tracked person t and a patient p that the
\* gateway holds and has linked, returns after its re-fetch succeeded, the
\* published tracked list holds the person t with patient_id p.
C12_EnrollRoundTrip ==
  [][\A m \in BagToSet(muts) :
       (ReturnsAfterRefetch(m) /\ m.linked)
         => \E e \in trackedPeople'.list : e.track_id = m.t /\ e.patient_id = m.p]_vars

\* C13: the mutation coordinator offers unenroll, and no tracked person that it
\* published as enrolled stays enrolled for want of it.
C13_UnenrollOffered == mounted => "unenroll" \in Actions

\* C14: in every render the stats shown satisfy
\* tagged_patients + untagged + staff_count = total_tracked.
C14_AggregateIdentity ==
  view.rendered =>
    ShownStats.tagged_patients + ShownStats.untagged + ShownStats.staff_count
      = ShownStats.total_tracked

\* C15: in every render each patient shown whose score is in 0..12 is grouped
\* under the band derived from that score (low 0-4, medium 5-6, high 7-12).
C15_BandFromScore ==
  view.rendered =>
    \A p \in ShownPatients.list :
      p.news2_score \in 0..12 => p \in view.byRisk[Band(p.news2_score)]

\* The tracked persons shown whose patient_id resolves to a shown patient in
\* the high band: one per resolved pair.
HighPairs ==
  { t \in ShownTracked.list :
      \E p \in ShownPatients.list : p.patient_id = t.patient_id /\ Band(p.news2_score) = "high" }

\* C16: in every render of a snapshot whose stored risk levels agree with the
\* scores, the critical alert lists as many entries as there are resolved
\* high-band pairs, and the stats bar shows that number as Critical.
C16_CriticalLocated ==
  (view.rendered /\ \A p \in ShownPatients.list : p.risk_level = Band(p.news2_score)) =>
    /\ Cardinality(view.criticalLocated) = Cardinality(HighPairs)
    /\ view.statsBar.Critical = Cardinality(HighPairs)

\* C17: every consumer selects gateway data under the same condition: the
\* stats bar, the critical alert and patient list, the floor map's persons,
\* the video feed and the sidebar agree, and the floor map draws on a gateway
\* layout only when its persons are gateway data.
C17_SameSelection ==
  LET live == Connectivity = "Live" /\ ~useMockData
  IN /\ (ShownStats.src = "gw") = live
     /\ (ShownPatients.src = "gw") = live
     /\ (ShownTracked.src = "gw") = live
     /\ VideoFeedIsConnected = live
     /\ SidebarIsConnected = live
     /\ ShownFloorPlan.src = "gw" => live

\* C18: while the fallback data set is displayed no connectivity indicator
\* reads Live.
C18_FallbackIsLabelled ==
  ShownTracked = mockTrackedPeople => (Connectivity # "Live" /\ SidebarBadge # "Live")

\* C19: with polling enabled a transport failure is recovered without user
\* action: an Offline period leaves the interval running, and once the
\* upstream has answered every mandatory read of the latest retry (a call of
\* fetchData after the first one) with success, connectivity is Live and the
\* consumers see gateway data unless the mock switch is set.
C19_Recoverable ==
  /\ (mounted /\ autoRefresh /\ Connectivity = "Offline") => timerOn
  /\ (mounted /\ autoRefresh /\ lastDone.id > 1 /\ lastDone.id = nextFetch - 1
        /\ InFlight = {} /\ lastDone.okReads = Mandatory) =>
       /\ Connectivity = "Live"
       /\ ~useMockData => ShownPatients.src = "gw" /\ ShownTracked.src = "gw" /\ ShownStats.src = "gw"

\* C20: once polling is stopped (auto-refresh off, so that the poll interval
\* is not a positive number) no timer tick is scheduled until polling is
\* enabled again: no interval is running, whatever toggles came before.
C20_NoTickAfterStop ==
  (mounted /\ ~TimerWanted(PollIntervalArg(autoRefresh))) => ~timerOn

\* C21: for every gateway operation a response whose status is not 2xx gives
\* the same kind of failure, an Error whose message carries the status code,
\* and the body is not read on that path; a 2xx response whose body is JSON
\* gives the parsed body.
C21_UniformFailure ==
  api.called =>
    IF api.response.status \in 200..299
    THEN IsJson(api.response.body) =>
           /\ ~api.outcome.threw
           /\ api.outcome.value = ParseJson(api.response.body)
    ELSE /\ api.outcome.threw
         /\ api.outcome.name = "Error"
         /\ api.outcome.message = "API Error: " \o ToString(api.response.status)
         /\ ~api.outcome.bodyRead

\* The gateway answered 404 with a JSON body that names the error.
C21_Witness ==
  /\ api.called
  /\ api.response.status = 404
  /\ api.response.body = "{\"detail\":\"Not Found\"}"
  /\ api.outcome.threw

\* The tracked persons shown whose patient_id names no patient shown.
Dangling ==
  { t \in ShownTracked.list :
      t.patient_id # NoPatient /\ \A p \in ShownPatients.list : p.patient_id # t.patient_id }

\* C22: in every render a tracked person with a dangling patient_id is treated
\* as unlinked: the map draws it with the colour of its kind, the smallest
\* size and its track id as label, and the enrolment panel lists it among the
\* unidentified persons unless it is staff.
C22_DanglingIsUnlinked ==
  view.rendered =>
    \A t \in Dangling :
      /\ [track_id |-> t.track_id,
          color |-> IF t.person_type = "staff" THEN STAFF_COLOR ELSE UNKNOWN_COLOR,
          size |-> 12, label |-> t.track_id] \in view.dots
      /\ t.person_type # "staff" => t \in view.unidentified

\* C23: in every render the map uses the default layout (default width and
\* height, the built-in zones) when the floor plan is absent or has no zones,
\* and the width, height and zones of the floor plan when it has zones.
C23_DefaultLayout ==
  view.rendered =>
    IF ~HasLayout(ShownFloorPlan) \/ ShownFloorPlan.zones = <<>>
    THEN /\ view.map.width = DEFAULT_WIDTH
         /\ view.map.height = DEFAULT_HEIGHT
         /\ view.map.zones = BuiltInZones
    ELSE /\ view.map.width = ShownFloorPlan.width
         /\ view.map.height = ShownFloorPlan.height
         /\ Len(view.map.zones) = Len(ShownFloorPlan.zones)
         /\ \A i \in 1..Len(ShownFloorPlan.zones) :
              /\ view.map.zones[i].id = ShownFloorPlan.zones[i].camera_id
              /\ view.map.zones[i].x = ShownFloorPlan.zones[i].map_x
              /\ view.map.zones[i].width = ShownFloorPlan.zones[i].map_width

\* C24: after a failed fetch the stored patients, tracked persons and stats
\* are still the ones the last successful fetch set (the initial ones if there
\* was none), and while connectivity is Offline nothing shown to a consumer is
\* gateway data.
C24_RetainedNotShown ==
  /\ (lastDone.id # 0 /\ ~lastDone.ok) =>
       /\ patients = IF lastOkId = 0 THEN InitData("patients") ELSE Gw("patients", lastOkId)
       /\ stats = IF lastOkId = 0 THEN InitData("stats") ELSE Gw("stats", lastOkId)
       /\ trackedPeople.src = (IF lastOkId = 0 THEN "init" ELSE "gw")
       /\ trackedPeople.fetch = lastOkId
  /\ Connectivity = "Offline" =>
       \A d \in {ShownPatients, ShownTracked, ShownStats, ShownFloorPlan} : d.src # "gw"

\* Offline with the snapshot of an earlier success retained and the mock
\* switch off.
C24_Witness ==
  /\ Connectivity = "Offline"
  /\ ~useMockData
  /\ lastOkId # 0
  /\ patients = Gw("patients", lastOkId)
  /\ ShownPatients = mockPatients

\* C25: published snapshots never go back in time: once the result of a call
\* of fetchData has been published, the result of a call that started before
\* it is not published.
C25_NoGoingBack ==
  [][(patients.src = "gw" /\ patients'.src = "gw") =>
       /\ patients'.fetch >= patients.fetch
       /\ trackedPeople'.fetch >= trackedPeople.fetch
       /\ stats'.fetch >= stats.fetch]_vars

\* The mutation calls that return in this step.
Returning == BagToSet(muts (-) muts')

\* C26: the result of a mutation depends only on its gateway call: a call
\* that returns after the gateway acknowledged it returns true, also when its
\* re-fetch has failed (connectivity is then Offline and the stored lists are
\* unchanged), a call the gateway rejected returns false, and none throws.
C26_ResultFromGatewayCall ==
  [][(BagCardinality(muts') < BagCardinality(muts)) =>
       \A m \in Returning :
         /\ ~lastMut'.threw
         /\ (m.phase = "refetch" \/ nextFetch' # nextFetch) => lastMut'.result = "true"
         /\ (m.phase = "call" /\ nextFetch' = nextFetch) => lastMut'.result = "false"
         /\ (lastDone'.id # lastDone.id /\ ~lastDone'.ok) =>
              /\ lastMut'.result = "true"
              /\ Connectivity' = "Offline"
              /\ patients' = patients /\ trackedPeople' = trackedPeople /\ stats' = stats]_vars

\* A mutation has returned true and its re-fetch, the second call of
\* fetchData, has failed after the first had succeeded.
C26_Witness ==
  /\ hasGetFloorPlan
  /\ lastMut.gwOk /\ lastMut.result = "true"
  /\ lastDone.id = 2 /\ ~lastDone.ok
  /\ lastOkId = 1
  /\ Connectivity = "Offline"

\* C27: whenever connectivity is not Live the stored floor plan is absent
\* (null).
C27_NoLayoutUnlessLive == Connectivity # "Live" => floorPlan = NullData

\* Offline through a failure of the second call of fetchData, the first having
\* succeeded with a client that reads the floor plan.
C27_Witness ==
  /\ hasGetFloorPlan
  /\ Connectivity = "Offline"
  /\ lastOkId = 1
  /\ lastDone.id = 2
  /\ floorPlan = NullData

\* C28: before the first fetch completes connectivity is Connecting and
\* last_error is null; from then on last_error is null exactly when
\* connectivity is Live.
C28_ErrorIffNotLive ==
  /\ lastDone.id = 0 => (Connectivity = "Connecting" /\ error = NoError)
  /\ lastDone.id # 0 => ((error = NoError) <=> (Connectivity = "Live"))

\* Offline with the error of a failed fetch, after a fetch had succeeded and
\* cleared it.
C28_Witness ==
  /\ Connectivity = "Offline"
  /\ error \in ErrMsgs
  /\ error = lastDone.err
  /\ lastOkId # 0

C30_EnrollNamesDisplayed ==
  [][\A m \in BagToSet(muts' (-) muts) :
       m.kind = "enroll" =>
         /\ \E t \in unidentified(ShownTracked.list) : t.track_id = m.t
         /\ \E p \in availablePatients(ShownPatients.list, ShownTracked.list) :
              p.patient_id = m.p]_vars

====
